---- MODULE Spec2Model ----
(***************************************************************************)
(* PartyBot (src/app.py): the in-memory submission store and the handlers  *)
(* of the slash commands, the interactive callbacks and the message event. *)
(*                                                                         *)
(* Strings that the code inspects character by character (the command      *)
(* text, the candidate name, the url) are sequences of one-character       *)
(* strings.  Strings the code only stores and compares (user, position,    *)
(* message text, file name) are TLA+ strings.                              *)
(*                                                                         *)
(* Each handler is modelled twice: as one action (the handler run to       *)
(* completion, every outbound call succeeding), and statement by statement *)
(* on the workers of the listener pool, where handlers interleave and an   *)
(* outbound call can raise.                                                *)
(***************************************************************************)
EXTENDS Integers, Sequences, FiniteSets, TLC

\* ------------------------------------------------------------ bounds

\* Tokens issued in a behaviour of Spec (uuid4 is unbounded).
MaxTokens == 2

\* Tokens issued in a behaviour of SpecDeep, of SpecSolo, of SpecNominate,
\* of SpecForm.
DeepTokens == 3

SoloTokens == 2

NominateTokens == 1

FormTokens == 1

\* SpecQuota starts after QuotaStart completed nominations and issues
\* QuotaExtra more tokens.
QuotaStart == 8

QuotaExtra == 2

\* ------------------------------------------------- program constants

MAX_COMMAND_LENGTH == 256

CANDIDATE_LIMIT == 9

\* ------------------------------------------------------- characters

LowerLetters == {"a", "b", "c", "h", "k", "x"}

UpperLetters == {"A", "B", "K"}

\* str.isalpha() of one character (the alphabet of the model is ASCII).
IsAlpha(c) == c \in LowerLetters \cup UpperLetters

\* str.lower() of one character.
LowerChar(c) ==
    CASE c = "A" -> "a"
      [] c = "B" -> "b"
      [] c = "K" -> "k"
      [] OTHER -> c

\* ''.join(c for c in name if c.isalpha()).lower()
canonicalize_name(name) ==
    LET kept == SelectSeq(name, IsAlpha)
    IN  [i \in 1..Len(kept) |-> LowerChar(kept[i])]

\* Index of the first occurrence of character c in s, 0 when there is none
\* (str.find, 1-based).
Find(s, c) ==
    IF \E i \in 1..Len(s) : s[i] = c
    THEN CHOOSE i \in 1..Len(s) : s[i] = c /\ \A j \in 1..(i - 1) : s[j] # c
    ELSE 0

\* split_command[0]: the text up to the first space.
SplitHead(text) ==
    IF Find(text, " ") = 0 THEN text ELSE SubSeq(text, 1, Find(text, " ") - 1)

\* CandidateName with the slice forgotten: " ".join(split_command).
CandidateName_Unsliced(text) == text

\* " ".join(split_command[1:]): the text after the first space ("" when the
\* text has no space).
CandidateName(text) ==
    IF Find(text, " ") = 0 THEN << >>
    ELSE SubSeq(text, Find(text, " ") + 1, Len(text))

NotAngle(c) == c # "<" /\ c # ">"

\* candidate_url after .replace("<", "").replace(">", "") and the cut at "|".
CandidateUrl(text) ==
    LET stripped == SelectSeq(SplitHead(text), NotAngle)
    IN  IF Find(stripped, "|") = 0 THEN stripped
        ELSE SubSeq(stripped, 1, Find(stripped, "|") - 1)

\* Characters urllib allows in a scheme (letters, digits, "+", "-", ".").
IsSchemeChar(c) == IsAlpha(c) \/ c \in {"+", "-", "."}

\* bool(urlparse(url).scheme): a first ":" that is not the first character,
\* a leading letter, and only scheme characters before the ":".
HasScheme(url) ==
    /\ Find(url, ":") > 1
    /\ IsAlpha(url[1])
    /\ \A i \in 1..(Find(url, ":") - 1) : IsSchemeChar(url[i])

\* TooLong with the comparison off by one: >= MAX_COMMAND_LENGTH.
TooLong_Inclusive(text) == Len(text) >= MAX_COMMAND_LENGTH

\* len(command['text']) > MAX_COMMAND_LENGTH
TooLong(text) == Len(text) > MAX_COMMAND_LENGTH

\* --------------------------------------------------------- registries

\* None of Python.
None == "None"

\* Users of the workspace: user_id and user_name of one user name the same
\* user, and the model writes both as one value.
Users == {"u1", "u2"}

\* body["event"].get("user") of the bot's own message.
NoUser == "nobody"

\* open_positions, loaded from data/open_positions.yaml.
open_positions == {"p1", "p2"}

\* The names listed in data/known_candidates.yaml.
KnownNames == {<<"K", ".">>}

\* known_candidates = {candidate: canonicalize_name(candidate) ...}
known_candidates == [c \in KnownNames |-> canonicalize_name(c)]

Range(f) == {f[x] : x \in DOMAIN f}

\* A token no nomination issued (a uuid4 the store never saw).
UnknownToken == 0

\* submission.ts before the picker message is posted (None; the timestamp
\* of the picker posted for a token is written as the token).
NoTs == 0

\* ------------------------------------------------------------- state

VARIABLES
    submitted_candidates,      \* set of canonical names
    submissions_by_token,      \* token -> Submission; tokens are 1..Len
    current_token_by_user_id,  \* user -> token
    done_submissions_by_user,  \* user -> position -> candidate -> token
    leads_file,                \* the list last dumped to leads.yaml, as a bag
    last,                      \* what the last handler answered
    cancelled,                 \* tokens a cancel event was handled for
    threads                    \* worker -> the handler it runs and where it is

vars == <<submitted_candidates, submissions_by_token, current_token_by_user_id,
          done_submissions_by_user, leads_file, last, cancelled, threads>>

\* A dict with no key.
EmptyMap == [x \in {} |-> None]

\* Submission() with referer, candidate and url assigned (lines 152-155) and
\* ts the handle of the picker message posted for the token.
Submission(user, name, url, token) ==
    [referer |-> user, candidate |-> name, url |-> url, position |-> None,
     ts |-> token, extra_info |-> None, cv_filename |-> None, done |-> FALSE]

\* done_submissions_by_user[user]: the defaultdict creates the missing key.
TouchUser(d, user) ==
    IF user \in DOMAIN d THEN d ELSE d @@ (user :> EmptyMap)

\* done_submissions_by_user[user][position]: both defaultdicts create the
\* missing key.
Touch(d, user, position) ==
    LET d1 == TouchUser(d, user)
    IN  IF position \in DOMAIN d1[user] THEN d1
        ELSE [d1 EXCEPT ![user] = @ @@ (position :> EmptyMap)]

\* done_submissions_by_user[referer][position][candidate] = submission
Insert(d, user, position, name, token) ==
    LET d2 == Touch(d, user, position)
    IN  [d2 EXCEPT ![user][position] =
            [c \in DOMAIN @ \cup {name} |-> IF c = name THEN token ELSE @[c]]]

\* The keys user -> position -> candidate of the completed structure.
DonePaths(d) ==
    UNION {UNION {{<<u, p, c>> : c \in DOMAIN d[u][p]} : p \in DOMAIN d[u]} :
           u \in DOMAIN d}

\* LimitReached with the comparison off by one: > CANDIDATE_LIMIT.
LimitReached_Strict(d, user, position) ==
    Cardinality(DOMAIN Touch(d, user, position)[user][position]) > CANDIDATE_LIMIT

\* len(done_submissions_by_user[user_name][position]) >= CANDIDATE_LIMIT,
\* read after the defaultdicts created the keys.
LimitReached(d, user, position) ==
    Cardinality(DOMAIN Touch(d, user, position)[user][position]) >= CANDIDATE_LIMIT

\* save(): the list of vars(submission) over every completed entry, dumped to
\* leads.yaml.  The list is kept as a bag (record -> number of occurrences):
\* an object stored under two keys is dumped twice.
save(d, subs) ==
    LET rec(x) == subs[d[x[1]][x[2]][x[3]]]
        recs == {rec(x) : x \in DonePaths(d)}
    IN  [r \in recs |-> Cardinality({x \in DonePaths(d) : rec(x) = r})]

Answer(handler, outcome, warned) ==
    [handler |-> handler, outcome |-> outcome, warned |-> warned]

\* The module-level stores as lines 35-41 build them; leads.yaml holds no
\* entry and no handler has run.
InitStore ==
    /\ submitted_candidates = {}
    /\ submissions_by_token = << >>
    /\ current_token_by_user_id = EmptyMap
    /\ done_submissions_by_user = EmptyMap
    /\ leads_file = EmptyMap
    /\ last = Answer("none", "none", FALSE)
    /\ cancelled = {}

\* Handlers run to completion one at a time: no worker is ever part way
\* through a handler.
Init ==
    /\ InitStore
    /\ threads = << >>

\* SetCurrent that keeps the token the user already has (dict.setdefault).
SetCurrent_Once(current, user, token) ==
    IF user \in DOMAIN current THEN current ELSE current @@ (user :> token)

\* current_token_by_user_id[user_id] = token
SetCurrent(current, user, token) ==
    [u \in DOMAIN current \cup {user} |-> IF u = user THEN token ELSE current[u]]

\* Held with the tokens of cancelled Submissions dropped from the map.
Held_NotCancelled(subs, token) ==
    token \in DOMAIN subs /\ token \notin cancelled

\* bool(submissions_by_token.get(token)): the map holds the token.
Held(subs, token) == token \in DOMAIN subs

\* AlreadyDone with the test forgotten.
AlreadyDone_Never(submission) == FALSE

\* if submission.done: before the message is recorded
AlreadyDone(submission) == submission.done

\* ---------------------------------------------------------- handlers

\* /partybot-submit
partybot_submit(user, text) ==
    LET candidate_name == CandidateName(text)
        candidate_url == CandidateUrl(text)
        canonical_name == canonicalize_name(candidate_name)
        warned == ~HasScheme(candidate_url)
        token == Len(submissions_by_token) + 1
    IN  /\ UNCHANGED <<done_submissions_by_user, leads_file, cancelled>>
        /\ IF TooLong(text)
           THEN /\ last' = Answer("partybot_submit", "too_long", FALSE)
                /\ UNCHANGED <<submitted_candidates, submissions_by_token,
                               current_token_by_user_id>>
           ELSE IF candidate_name = << >>
           THEN /\ last' = Answer("partybot_submit", "empty_name", warned)
                /\ UNCHANGED <<submitted_candidates, submissions_by_token,
                               current_token_by_user_id>>
           ELSE IF canonical_name \in Range(known_candidates)
           THEN /\ last' = Answer("partybot_submit", "known", warned)
                /\ UNCHANGED <<submitted_candidates, submissions_by_token,
                               current_token_by_user_id>>
           ELSE IF canonical_name \in submitted_candidates
           THEN /\ last' = Answer("partybot_submit", "duplicate", warned)
                /\ UNCHANGED <<submitted_candidates, submissions_by_token,
                               current_token_by_user_id>>
           ELSE /\ submitted_candidates' = submitted_candidates \cup {canonical_name}
                /\ submissions_by_token' =
                       Append(submissions_by_token,
                              Submission(user, candidate_name, candidate_url, token))
                /\ current_token_by_user_id' =
                       SetCurrent(current_token_by_user_id, user, token)
                /\ last' = Answer("partybot_submit", "accepted", warned)

\* finish_submission(user_id, submission, client), on the store as the caller
\* left it: subs and d are the token map and the completed structure after
\* the caller's own assignments.
finish_submission(subs, d, token) ==
    LET finished == [subs EXCEPT ![token].done = TRUE]
        inserted == Insert(d, finished[token].referer, finished[token].position,
                           finished[token].candidate, token)
    IN  /\ submissions_by_token' = finished
        /\ done_submissions_by_user' = inserted
        /\ leads_file' = save(inserted, finished)

\* The pick_position action.
pick_position(user, token, position) ==
    LET touched == Touch(done_submissions_by_user, user, position)
    IN  /\ UNCHANGED <<submitted_candidates, current_token_by_user_id, cancelled>>
        /\ IF LimitReached(done_submissions_by_user, user, position)
           THEN /\ done_submissions_by_user' = touched
                /\ last' = Answer("pick_position", "limit", FALSE)
                /\ UNCHANGED <<submissions_by_token, leads_file>>
           ELSE IF token \notin DOMAIN submissions_by_token
           THEN /\ done_submissions_by_user' = touched
                /\ last' = Answer("pick_position", "no_submission", FALSE)
                /\ UNCHANGED <<submissions_by_token, leads_file>>
           ELSE /\ finish_submission(
                       [submissions_by_token EXCEPT ![token].position = position,
                                                    ![token].ts = token],
                       touched, token)
                /\ last' = Answer("pick_position", "finished", FALSE)

\* Remove with the removal forgotten.
Remove_Nothing(set, canonical_name) == set

\* submitted_candidates.remove(canonical_name)
Remove(set, canonical_name) == set \ {canonical_name}

\* The cancel action.  submissions_by_token.get(token) is None for a token
\* the store does not hold, and None has no attribute candidate; set.remove
\* raises KeyError for a name the set does not hold.
cancel_submission(user, token) ==
    /\ UNCHANGED <<submissions_by_token, current_token_by_user_id,
                   done_submissions_by_user, leads_file>>
    /\ IF token \notin DOMAIN submissions_by_token
       THEN /\ last' = Answer("cancel_submission", "AttributeError", FALSE)
            /\ UNCHANGED <<submitted_candidates, cancelled>>
       ELSE LET canonical_name ==
                    canonicalize_name(submissions_by_token[token].candidate)
            IN  /\ cancelled' = cancelled \cup {token}
                /\ IF canonical_name \notin submitted_candidates
                   THEN /\ last' = Answer("cancel_submission", "KeyError", FALSE)
                        /\ UNCHANGED submitted_candidates
                   ELSE /\ submitted_candidates' =
                               Remove(submitted_candidates, canonical_name)
                        /\ last' = Answer("cancel_submission", "canceled", FALSE)

\* PositionAssigned with the test forgotten: the message always completes.
PositionAssigned_Always(submission) == TRUE

\* if submission.position: after the message was recorded
PositionAssigned(submission) == submission.position # None

\* str(request.urlretrieve(file_url, Path("data", "leads", uuid + extension))[0]):
\* a fresh path under data/leads that keeps the extension of the shared file.
StoredPath(file) ==
    CASE file = "cv.pdf" -> "data/leads/uuid.pdf"
      [] OTHER -> "data/leads/uuid"

\* The message event.  file is the name of the shared file, None when the
\* event is no file_share.
extra_info_message(user, text, file) ==
    /\ UNCHANGED <<submitted_candidates, current_token_by_user_id, cancelled>>
    /\ IF user = NoUser
       THEN /\ last' = Answer("extra_info_message", "bot", FALSE)
            /\ UNCHANGED <<submissions_by_token, done_submissions_by_user, leads_file>>
       ELSE IF \/ user \notin DOMAIN current_token_by_user_id
               \/ ~Held(submissions_by_token, current_token_by_user_id[user])
       THEN /\ last' = Answer("extra_info_message", "unrelated", FALSE)
            /\ UNCHANGED <<submissions_by_token, done_submissions_by_user, leads_file>>
       ELSE LET token == current_token_by_user_id[user]
                recorded ==
                    [submissions_by_token EXCEPT
                        ![token].cv_filename = IF file # None THEN StoredPath(file) ELSE @,
                        ![token].extra_info = text]
            IN  IF AlreadyDone(submissions_by_token[token])
                THEN /\ last' = Answer("extra_info_message", "already_done", FALSE)
                     /\ UNCHANGED <<submissions_by_token, done_submissions_by_user,
                                    leads_file>>
                ELSE IF PositionAssigned(recorded[token])
                THEN /\ finish_submission(recorded, done_submissions_by_user, token)
                     /\ last' = Answer("extra_info_message", "info_finished", FALSE)
                ELSE /\ submissions_by_token' = recorded
                     /\ last' = Answer("extra_info_message", "info_saved", FALSE)
                     /\ UNCHANGED <<done_submissions_by_user, leads_file>>

\* /partybot-report
partybot_report(user) ==
    /\ done_submissions_by_user' = TouchUser(done_submissions_by_user, user)
    /\ last' = Answer("partybot_report", "reported", FALSE)
    /\ UNCHANGED <<submitted_candidates, submissions_by_token,
                   current_token_by_user_id, leads_file, cancelled>>

\* ------------------------------------------------------------ inputs

NameAb == <<"A", "b">>

NameA_b == <<"a", " ", "b">>

NameC == <<"c">>

UrlScheme == <<"h", ":", "x">>

UrlNoScheme == <<"x">>

\* A link as the client marks it up: <h:x|x>.
UrlMarkup == <<"<", "h", ":", "x", "|", "x", ">">>

Command(url, name) == url \o <<" ">> \o name

Dots(n) == [i \in 1..n |-> "."]

\* A command of exactly MAX_COMMAND_LENGTH characters, and one more.
TextAtLimit ==
    Command(UrlScheme, NameAb \o Dots(MAX_COMMAND_LENGTH - Len(UrlScheme) - 1 - Len(NameAb)))

TextOverLimit == TextAtLimit \o <<".">>

\* Two spellings of one person, from two urls.
PairTexts == {Command(UrlScheme, NameAb), Command(UrlNoScheme, NameA_b)}

\* command['text'] of the nominations: acceptable ones, ones without a name
\* (no space at all, a trailing space), a known candidate, and the two
\* around the length limit.
Texts ==
    PairTexts \cup
    { Command(UrlMarkup, NameC),
      UrlScheme, Command(UrlNoScheme, << >>),
      Command(UrlScheme, <<"K", ".">>), Command(UrlNoScheme, <<"k">>),
      TextAtLimit, TextOverLimit }

\* body["event"]["text"] of the messages.
MessageTexts == {"info"}

\* body["event"]["files"][0]["name"] of a file_share, None for a plain message.
Files == {None, "cv.pdf"}

\* The tokens an interactive event can carry: those of the pickers that
\* were posted and are still on screen (every token issued after the first
\* stale ones) and a token the store never held.
Tokens(stale) ==
    {t \in DOMAIN submissions_by_token :
        t > stale /\ submissions_by_token[t].ts # NoTs} \cup {UnknownToken}

\* One step of the program: one handler runs on one event, drawn from the
\* given users, command texts, positions and shared files; at most max tokens
\* are issued.
NextOn(users, texts, positions, files, stale, max) ==
    \/ \E user \in users, text \in texts :
          /\ partybot_submit(user, text)
          /\ Len(submissions_by_token') <= max
          /\ UNCHANGED threads
    \/ \E user \in users, token \in Tokens(stale), position \in positions :
          /\ pick_position(user, token, position)
          /\ UNCHANGED threads
    \/ \E user \in users, token \in Tokens(stale) :
          /\ cancel_submission(user, token)
          /\ UNCHANGED threads
    \/ \E user \in users \cup {NoUser}, text \in MessageTexts, file \in files :
          /\ extra_info_message(user, text, file)
          /\ UNCHANGED threads
    \/ \E user \in users :
          /\ partybot_report(user)
          /\ UNCHANGED threads

\* Two users nominate the two spellings of one person for one position.
Next == NextOn(Users, PairTexts, {"p1"}, {None}, 0, MaxTokens)

Spec == Init /\ [][Next]_vars

\* One user nominates the two spellings over and over.
NextDeep == NextOn({"u1"}, PairTexts, {"p1"}, {None}, 0, DeepTokens)

SpecDeep == Init /\ [][NextDeep]_vars

\* One user, three candidate names of which two are one person.
SoloTexts == PairTexts \cup {Command(UrlMarkup, NameC)}

NextSolo == NextOn({"u1"}, SoloTexts, {"p1"}, {None}, 0, SoloTokens)

SpecSolo == Init /\ [][NextSolo]_vars

\* One user, every command text.
NextNominate == NextOn({"u1"}, Texts, {"p1"}, {None}, 0, NominateTokens)

SpecNominate == Init /\ [][NextNominate]_vars

\* The form of one nomination: two users, both positions, messages with and
\* without a file.
FormTexts == {Command(UrlScheme, NameAb)}

NextForm == NextOn(Users, FormTexts, open_positions, Files, 0, FormTokens)

SpecForm == Init /\ [][NextForm]_vars

\* Candidates u1 nominated and completed under p1 before SpecQuota starts;
\* none of them is one of the candidates of SoloTexts.
QuotaNames ==
    << <<"a">>, <<"b">>, <<"h">>, <<"x">>, <<"a", "a">>, <<"b", "b">>,
       <<"c", "c">>, <<"h", "h">>, <<"x", "x">>, <<"a", "x">> >>

QuotaSubmissions ==
    [t \in 1..QuotaStart |->
        [Submission("u1", QuotaNames[t], UrlScheme, t) EXCEPT
            !.position = "p1", !.done = TRUE]]

\* The state after u1 sent /partybot-submit h:x <QuotaNames[t]> and picked p1
\* for it, for t = 1..QuotaStart in turn.
InitQuota ==
    /\ submitted_candidates = {canonicalize_name(QuotaNames[t]) : t \in 1..QuotaStart}
    /\ submissions_by_token = QuotaSubmissions
    /\ current_token_by_user_id = ("u1" :> QuotaStart)
    /\ done_submissions_by_user =
           ("u1" :> ("p1" :> [c \in {QuotaNames[t] : t \in 1..QuotaStart} |->
                                 CHOOSE t \in 1..QuotaStart : QuotaNames[t] = c]))
    /\ leads_file = [r \in {QuotaSubmissions[t] : t \in 1..QuotaStart} |-> 1]
    /\ last = Answer("pick_position", "finished", FALSE)
    /\ cancelled = {}
    /\ threads = << >>

\* The pickers of the first QuotaStart nominations were deleted when they
\* completed: the interactive events carry the later tokens.
NextQuota ==
    NextOn({"u1"}, SoloTexts, {"p1"}, {None}, QuotaStart, QuotaStart + QuotaExtra)

SpecQuota == InitQuota /\ [][NextQuota]_vars

\* ------------------------------------------- handlers, statement by statement

\* The listeners run on the workers of the dispatcher's pool.  A worker is
\* idle or part way through one handler: pc names the line of src/app.py it
\* executes next, and the other fields are the handler's local variables.
\* Statements that touch no shared store are run together with the next one
\* that does.
Idle ==
    [pc |-> "idle", handler |-> None, user |-> None, token |-> UnknownToken,
     position |-> None, text |-> << >>, message |-> None, file |-> None]

Worker(pc, handler, user, token, position, text, message, file) ==
    [pc |-> pc, handler |-> handler, user |-> user, token |-> token,
     position |-> position, text |-> text, message |-> message, file |-> file]

\* The worker goes to line pc of the handler it runs.
Goto(self, pc) ==
    /\ threads' = [threads EXCEPT ![self].pc = pc]
    /\ UNCHANGED last

\* The handler returns, or an exception leaves it: the worker is idle again.
\* What a handler answered is kept in last only for the handlers that run in
\* one step.
Return(self) ==
    /\ threads' = [threads EXCEPT ![self] = Idle]
    /\ UNCHANGED last

\* The worker takes an event and runs the handler up to line worker.pc.
Start(self, worker) ==
    /\ threads' = [threads EXCEPT ![self] = worker]
    /\ UNCHANGED last

\* The dispatcher hands an event to a worker that runs no handler; the
\* workers are alike, and it takes the first such one.
Free(self) ==
    /\ threads[self] = Idle
    /\ \A w \in 1..(self - 1) : threads[w] # Idle

\* No worker is part way through a handler.
AllIdle == \A w \in DOMAIN threads : threads[w] = Idle

\* partybot_submit, lines 112-146: the checks up to the membership test on
\* the submitted set.
submit_l144(self, user, text) ==
    LET candidate_name == CandidateName(text)
        canonical_name == canonicalize_name(candidate_name)
    IN  /\ Free(self)
        /\ UNCHANGED <<submitted_candidates, submissions_by_token,
                       current_token_by_user_id, done_submissions_by_user,
                       leads_file, cancelled>>
        /\ IF TooLong(text)
           THEN Return(self)
           ELSE IF candidate_name = << >>
           THEN Return(self)
           ELSE IF canonical_name \in Range(known_candidates)
           THEN Return(self)
           ELSE IF canonical_name \in submitted_candidates
           THEN Return(self)
           ELSE Start(self, Worker("l148", "partybot_submit", user, UnknownToken,
                                   None, text, None, None))

\* partybot_submit, line 148: submitted_candidates.add(canonical_name)
submit_l148(self) ==
    /\ threads[self].pc = "l148"
    /\ submitted_candidates' =
           submitted_candidates \cup
               {canonicalize_name(CandidateName(threads[self].text))}
    /\ Goto(self, "l157")
    /\ UNCHANGED <<submissions_by_token, current_token_by_user_id,
                   done_submissions_by_user, leads_file, cancelled>>

\* partybot_submit, lines 151-157: the Submission is stored under a new
\* token; its ts is None until the picker message is posted.
submit_l157(self) ==
    LET token == Len(submissions_by_token) + 1
        th == threads[self]
    IN  /\ th.pc = "l157"
        /\ submissions_by_token' =
               Append(submissions_by_token,
                      [Submission(th.user, CandidateName(th.text),
                                  CandidateUrl(th.text), token)
                          EXCEPT !.ts = NoTs])
        /\ threads' = [threads EXCEPT ![self].pc = "l158", ![self].token = token]
        /\ UNCHANGED <<submitted_candidates, current_token_by_user_id,
                       done_submissions_by_user, leads_file, last, cancelled>>

\* partybot_submit, line 158: current_token_by_user_id[user_id] = token
submit_l158(self) ==
    /\ threads[self].pc = "l158"
    /\ current_token_by_user_id' =
           SetCurrent(current_token_by_user_id, threads[self].user,
                      threads[self].token)
    /\ Goto(self, "l161")
    /\ UNCHANGED <<submitted_candidates, submissions_by_token,
                   done_submissions_by_user, leads_file, cancelled>>

\* partybot_submit, lines 161-209: the picker message is posted and its
\* timestamp kept; ok is FALSE when chat_postMessage raises.
submit_l161(self, ok) ==
    LET th == threads[self]
    IN  /\ th.pc = "l161"
        /\ submissions_by_token' =
               IF ok THEN [submissions_by_token EXCEPT ![th.token].ts = th.token]
               ELSE submissions_by_token
        /\ Return(self)
        /\ UNCHANGED <<submitted_candidates, current_token_by_user_id,
                       done_submissions_by_user, leads_file, cancelled>>

\* pick_position, lines 249-266: the limit check (with the keys the
\* defaultdicts create) and the lookup of the token.
pick_l256(self, user, token, position) ==
    /\ Free(self)
    /\ done_submissions_by_user' = Touch(done_submissions_by_user, user, position)
    /\ UNCHANGED <<submitted_candidates, submissions_by_token,
                   current_token_by_user_id, leads_file, cancelled>>
    /\ IF LimitReached(done_submissions_by_user, user, position)
       THEN Return(self)
       ELSE IF ~Held(submissions_by_token, token)
       THEN Return(self)
       ELSE Start(self, Worker("l270", "pick_position", user, token, position,
                               << >>, None, None))

\* pick_position, lines 268-279: the confirmation is posted.
pick_l270(self, ok) ==
    /\ threads[self].pc = "l270"
    /\ IF ok THEN Goto(self, "l281")
       ELSE Return(self)
    /\ UNCHANGED <<submitted_candidates, submissions_by_token,
                   current_token_by_user_id, done_submissions_by_user,
                   leads_file, cancelled>>

\* pick_position, line 281: submission.position = position
pick_l281(self) ==
    /\ threads[self].pc = "l281"
    /\ submissions_by_token' =
           [submissions_by_token EXCEPT
               ![threads[self].token].position = threads[self].position]
    /\ Goto(self, "l284")
    /\ UNCHANGED <<submitted_candidates, current_token_by_user_id,
                   done_submissions_by_user, leads_file, cancelled>>

\* pick_position, lines 284-285: submission.ts = message_ts, then
\* finish_submission is entered.
pick_l284(self) ==
    /\ threads[self].pc = "l284"
    /\ submissions_by_token' =
           [submissions_by_token EXCEPT ![threads[self].token].ts = threads[self].token]
    /\ Goto(self, "l213")
    /\ UNCHANGED <<submitted_candidates, current_token_by_user_id,
                   done_submissions_by_user, leads_file, cancelled>>

\* finish_l213 with the assignment forgotten.
finish_l213_Skip(self) ==
    /\ threads[self].pc = "l213"
    /\ Goto(self, "l214")
    /\ UNCHANGED <<submitted_candidates, submissions_by_token,
                   current_token_by_user_id, done_submissions_by_user,
                   leads_file, cancelled>>

\* finish_submission, line 213: submission.done = True
finish_l213(self) ==
    /\ threads[self].pc = "l213"
    /\ submissions_by_token' =
           [submissions_by_token EXCEPT ![threads[self].token].done = TRUE]
    /\ Goto(self, "l214")
    /\ UNCHANGED <<submitted_candidates, current_token_by_user_id,
                   done_submissions_by_user, leads_file, cancelled>>

\* finish_submission, line 214: the insertion, under the referer, position
\* and candidate the Submission has now.
finish_l214(self) ==
    LET submission == submissions_by_token[threads[self].token]
    IN  /\ threads[self].pc = "l214"
        /\ done_submissions_by_user' =
               Insert(done_submissions_by_user, submission.referer,
                      submission.position, submission.candidate,
                      threads[self].token)
        /\ Goto(self, "l216")
        /\ UNCHANGED <<submitted_candidates, submissions_by_token,
                       current_token_by_user_id, leads_file, cancelled>>

\* finish_submission, lines 215-225: "Submission done" is posted.
finish_l216(self, ok) ==
    /\ threads[self].pc = "l216"
    /\ IF ok THEN Goto(self, "l226")
       ELSE Return(self)
    /\ UNCHANGED <<submitted_candidates, submissions_by_token,
                   current_token_by_user_id, done_submissions_by_user,
                   leads_file, cancelled>>

\* finish_submission, lines 226-229: the picker message is deleted.
finish_l226(self, ok) ==
    /\ threads[self].pc = "l226"
    /\ IF ok THEN Goto(self, "l230")
       ELSE Return(self)
    /\ UNCHANGED <<submitted_candidates, submissions_by_token,
                   current_token_by_user_id, done_submissions_by_user,
                   leads_file, cancelled>>

\* finish_submission, line 230: save(), under store_lock.
finish_l230(self) ==
    /\ threads[self].pc = "l230"
    /\ leads_file' = save(done_submissions_by_user, submissions_by_token)
    /\ Return(self)
    /\ UNCHANGED <<submitted_candidates, submissions_by_token,
                   current_token_by_user_id, done_submissions_by_user, cancelled>>

\* cancel_submission: line 300 is its only access to a store that changes,
\* and the calls after it write nothing, so the handler is one step.
cancel_l300(self, user, token) ==
    /\ Free(self)
    /\ cancel_submission(user, token)
    /\ UNCHANGED threads

\* extra_info_message, lines 324-333: the user's token and its Submission.
message_l328(self, user, text, file) ==
    /\ Free(self)
    /\ UNCHANGED <<submitted_candidates, submissions_by_token,
                   current_token_by_user_id, done_submissions_by_user,
                   leads_file, cancelled>>
    /\ IF user = NoUser
       THEN Return(self)
       ELSE IF \/ user \notin DOMAIN current_token_by_user_id
               \/ ~Held(submissions_by_token, current_token_by_user_id[user])
       THEN Return(self)
       ELSE Start(self, Worker("l335", "extra_info_message", user,
                               current_token_by_user_id[user], None, << >>,
                               text, file))

\* extra_info_message, lines 335-336: if submission.done: return
message_l335(self) ==
    /\ threads[self].pc = "l335"
    /\ IF AlreadyDone(submissions_by_token[threads[self].token])
       THEN Return(self)
       ELSE Goto(self, "l348")
    /\ UNCHANGED <<submitted_candidates, submissions_by_token,
                   current_token_by_user_id, done_submissions_by_user,
                   leads_file, cancelled>>

\* extra_info_message, lines 338-348: the shared file, if the event has one,
\* is downloaded and its path kept, then the text is recorded.  No other
\* handler reads these two fields, so the two writes are one step; ok is
\* FALSE when urlretrieve raises.
message_l348(self, ok) ==
    LET th == threads[self]
    IN  /\ th.pc = "l348"
        /\ ok \/ th.file # None
        /\ IF ok
           THEN /\ submissions_by_token' =
                       [submissions_by_token EXCEPT
                           ![th.token].cv_filename =
                               IF th.file # None THEN StoredPath(th.file) ELSE @,
                           ![th.token].extra_info = th.message]
                /\ Goto(self, "l352")
           ELSE /\ Return(self)
                /\ UNCHANGED submissions_by_token
        /\ UNCHANGED <<submitted_candidates, current_token_by_user_id,
                       done_submissions_by_user, leads_file, cancelled>>

\* extra_info_message, lines 349-361: "Info saved" is posted.
message_l352(self, ok) ==
    /\ threads[self].pc = "l352"
    /\ IF ok THEN Goto(self, "l363")
       ELSE Return(self)
    /\ UNCHANGED <<submitted_candidates, submissions_by_token,
                   current_token_by_user_id, done_submissions_by_user,
                   leads_file, cancelled>>

\* extra_info_message, lines 363-364: if submission.position: finish_submission
message_l363(self) ==
    /\ threads[self].pc = "l363"
    /\ IF PositionAssigned(submissions_by_token[threads[self].token])
       THEN Goto(self, "l213")
       ELSE Return(self)
    /\ UNCHANGED <<submitted_candidates, submissions_by_token,
                   current_token_by_user_id, done_submissions_by_user,
                   leads_file, cancelled>>

\* partybot_report: the read of line 89 is its only access to a store, so
\* the handler is one step.
report_l89(self, user) ==
    /\ Free(self)
    /\ partybot_report(user)
    /\ UNCHANGED threads

\* The steps of finish_submission, whichever handler entered it.
FinishSteps(self, oks) ==
    \/ finish_l213(self)
    \/ finish_l214(self)
    \/ \E ok \in oks : finish_l216(self, ok)
    \/ \E ok \in oks : finish_l226(self, ok)
    \/ finish_l230(self)

\* The steps of partybot_submit on the given events; at most max tokens are
\* issued.
SubmitSteps(self, users, texts, max, oks) ==
    \/ \E user \in users, text \in texts :
          /\ submit_l144(self, user, text)
          /\ threads'[self].pc = "l148" =>
                 Len(submissions_by_token)
                     + Cardinality({w \in DOMAIN threads :
                                       threads[w].pc \in {"l148", "l157"}}) < max
    \/ submit_l148(self)
    \/ submit_l157(self)
    \/ submit_l158(self)
    \/ \E ok \in oks : submit_l161(self, ok)

\* The steps of pick_position on the given events.
PickSteps(self, users, positions, stale, oks) ==
    \/ \E user \in users, token \in Tokens(stale), position \in positions :
          pick_l256(self, user, token, position)
    \/ \E ok \in oks : pick_l270(self, ok)
    \/ pick_l281(self)
    \/ pick_l284(self)

\* The steps of extra_info_message on the given events.
MessageSteps(self, users, files, oks) ==
    \/ \E user \in users \cup {NoUser}, text \in MessageTexts, file \in files :
          message_l328(self, user, text, file)
    \/ message_l335(self)
    \/ \E ok \in oks : message_l348(self, ok)
    \/ \E ok \in oks : message_l352(self, ok)
    \/ message_l363(self)

\* The stores are new and the pool has n idle workers.
InitPool(n) ==
    /\ InitStore
    /\ threads = [w \in 1..n |-> Idle]

\* Workers of the dispatcher's pool in a behaviour of SpecPool (the pool
\* has one worker when the handlers run one at a time).
MaxWorkers == 2

\* Tokens issued in a behaviour of SpecPool.
PoolTokens == 1

\* One user and one candidate; every outbound call can fail; the pool has
\* one worker or more.
NextPool ==
    \E self \in DOMAIN threads :
        \/ SubmitSteps(self, {"u1"}, FormTexts, PoolTokens, BOOLEAN)
        \/ PickSteps(self, {"u1"}, {"p1"}, 0, BOOLEAN)
        \/ FinishSteps(self, BOOLEAN)
        \/ \E token \in Tokens(0) : cancel_l300(self, "u1", token)
        \/ MessageSteps(self, {"u1"}, Files, BOOLEAN)
        \/ report_l89(self, "u1")

SpecPool == (\E n \in 1..MaxWorkers : InitPool(n)) /\ [][NextPool]_vars

\* Tokens issued in a behaviour of SpecRace.
RaceTokens == 2

\* Nominations only: two users send the two spellings of one person, and
\* every outbound call succeeds.
NextRace ==
    \E self \in DOMAIN threads :
        SubmitSteps(self, Users, PairTexts, RaceTokens, {TRUE})

SpecRace == (\E n \in 1..MaxWorkers : InitPool(n)) /\ [][NextRace]_vars

\* The Submissions of u1 before SpecPickRace starts: one short of the limit
\* are completed under p1, and two more wait for their position.
PickRaceSubmissions ==
    [t \in 1..(CANDIDATE_LIMIT + 1) |->
        IF t < CANDIDATE_LIMIT
        THEN [Submission("u1", QuotaNames[t], UrlScheme, t) EXCEPT
                 !.position = "p1", !.done = TRUE]
        ELSE Submission("u1", QuotaNames[t], UrlScheme, t)]

\* The state after u1 sent /partybot-submit h:x <QuotaNames[t]> for every t,
\* and picked p1 for all but the last two, one handler at a time; the pool
\* has n idle workers.
InitPickRace(n) ==
    /\ submitted_candidates =
           {canonicalize_name(QuotaNames[t]) : t \in 1..(CANDIDATE_LIMIT + 1)}
    /\ submissions_by_token = PickRaceSubmissions
    /\ current_token_by_user_id = ("u1" :> CANDIDATE_LIMIT + 1)
    /\ done_submissions_by_user =
           ("u1" :> ("p1" :> [c \in {QuotaNames[t] : t \in 1..(CANDIDATE_LIMIT - 1)} |->
                                 CHOOSE t \in 1..(CANDIDATE_LIMIT - 1) : QuotaNames[t] = c]))
    /\ leads_file =
           [r \in {PickRaceSubmissions[t] : t \in 1..(CANDIDATE_LIMIT - 1)} |-> 1]
    /\ last = Answer("partybot_submit", "accepted", FALSE)
    /\ cancelled = {}
    /\ threads = [w \in 1..n |-> Idle]

\* Picks only: u1 picks p1 on the pickers still on screen, and every outbound
\* call succeeds.
NextPickRace ==
    \E self \in DOMAIN threads :
        \/ PickSteps(self, {"u1"}, {"p1"}, CANDIDATE_LIMIT - 1, {TRUE})
        \/ FinishSteps(self, {TRUE})

SpecPickRace ==
    (\E n \in 1..MaxWorkers : InitPickRace(n)) /\ [][NextPickRace]_vars

\* Tokens issued in a behaviour of SpecWindow.
WindowTokens == 1

\* One nomination, its picks and the messages about it; every outbound call
\* can fail; the pool has one worker or more.
NextWindow ==
    \E self \in DOMAIN threads :
        \/ SubmitSteps(self, {"u1"}, FormTexts, WindowTokens, BOOLEAN)
        \/ PickSteps(self, {"u1"}, {"p1"}, 0, BOOLEAN)
        \/ FinishSteps(self, BOOLEAN)
        \/ MessageSteps(self, {"u1"}, {None}, BOOLEAN)

SpecWindow == (\E n \in 1..MaxWorkers : InitPool(n)) /\ [][NextWindow]_vars

\* ------------------------------------------------- vocabulary of the claims

AllTokens == DOMAIN submissions_by_token \cup {UnknownToken}

\* The canonical name of the candidate of the Submission under token t.
CanonOf(t) == canonicalize_name(submissions_by_token[t].candidate)

\* The Submission object under token t is a value of the completed structure.
InCompleted(d, t) ==
    \E x \in DonePaths(d) : d[x[1]][x[2]][x[3]] = t

\* Number of completed entries held for a submitter under a position.
CompletedCount(user, position) ==
    IF user \in DOMAIN done_submissions_by_user
       /\ position \in DOMAIN done_submissions_by_user[user]
    THEN Cardinality(DOMAIN done_submissions_by_user[user][position])
    ELSE 0

\* Accepted, not done, and no cancel event was handled for it.
Pending(t) ==
    /\ t \in DOMAIN submissions_by_token
    /\ ~submissions_by_token[t].done
    /\ t \notin cancelled

Rejections == {"too_long", "empty_name", "known", "duplicate"}

\* The command text has no name part: it has no space, or its only space is
\* its last character.
NoNamePart(text) == \A i \in 1..Len(text) : text[i] = " " => i = Len(text)

\* The command is within the length limit, names a candidate and the
\* candidate is not a known one.
Nameable(text) ==
    /\ Len(text) <= MAX_COMMAND_LENGTH
    /\ ~NoNamePart(text)
    /\ \A c \in KnownNames :
          canonicalize_name(c) # canonicalize_name(CandidateName(text))

\* A cancel event was handled for a Submission of canonical name k that is
\* not done, and no nomination of k was accepted after that Submission.
Freed(k) ==
    \E t \in cancelled :
        /\ ~submissions_by_token[t].done
        /\ CanonOf(t) = k
        /\ \A t2 \in DOMAIN submissions_by_token : t2 > t => CanonOf(t2) # k

FreedNamesAbsent ==
    \A t \in cancelled : Freed(CanonOf(t)) => CanonOf(t) \notin submitted_candidates

\* ---------------------------------------------------------------- C1

\* C1 (as claimed): a nomination whose name canonicalizes like the candidate
\* of a Submission that is neither done nor cancelled is rejected: it issues
\* no token and creates no Submission, whichever user sends it.
C1_DuplicateOfPendingRejected ==
    [][\A user \in Users, text \in Texts :
          ( /\ partybot_submit(user, text)
            /\ \E t \in DOMAIN submissions_by_token :
                  Pending(t) /\ CanonOf(t) = canonicalize_name(CandidateName(text)) )
          => /\ last'.outcome \in Rejections
             /\ UNCHANGED <<submissions_by_token, submitted_candidates,
                            current_token_by_user_id>>]_vars

\* ---------------------------------------------------------------- C2

\* C2: a pick-position event of a user who holds CANDIDATE_LIMIT or more
\* completed entries under the picked position is answered with the limit
\* message: no Submission changes (no done flag set, no position assigned),
\* the completed structure and the leads file stay as they were.
C2_QuotaRefusesPick ==
    [][\A user \in Users, token \in AllTokens, position \in open_positions :
          ( /\ last'.handler = "pick_position"
            /\ CompletedCount(user, position) >= CANDIDATE_LIMIT
            /\ pick_position(user, token, position) )
          => /\ last'.outcome = "limit"
             /\ UNCHANGED <<submissions_by_token, done_submissions_by_user,
                            leads_file, submitted_candidates,
                            current_token_by_user_id>>]_vars

\* u1 holds CANDIDATE_LIMIT completed entries under p1, a pick was just
\* refused, and a Submission of u1 is still waiting for its position.
C2_Witness ==
    /\ last.outcome = "limit"
    /\ CompletedCount("u1", "p1") >= CANDIDATE_LIMIT
    /\ \E t \in DOMAIN submissions_by_token :
          /\ submissions_by_token[t].referer = "u1"
          /\ ~submissions_by_token[t].done
          /\ submissions_by_token[t].position = None

\* ---------------------------------------------------------------- C3

\* C3 (as claimed): a Submission is a value of done_submissions_by_user if
\* and only if its done flag is true.
C3_CompletedIffDone ==
    \A t \in DOMAIN submissions_by_token :
        submissions_by_token[t].done <=> InCompleted(done_submissions_by_user, t)

\* ---------------------------------------------------------------- C4

\* C4 (as claimed): finish_submission runs only for a Submission that is not
\* done yet, whether a pick-position event or a message event calls it.
C4_CompletedAtMostOnce ==
    [][/\ \A user \in Users, token \in DOMAIN submissions_by_token,
             position \in open_positions :
             ( /\ pick_position(user, token, position)
               /\ submissions_by_token[token].done )
             => last'.outcome # "finished"
       /\ \A user \in Users, text \in MessageTexts, file \in Files :
             ( /\ extra_info_message(user, text, file)
               /\ user \in DOMAIN current_token_by_user_id
               /\ submissions_by_token[current_token_by_user_id[user]].done )
             => last'.outcome # "info_finished"]_vars

\* ---------------------------------------------------------------- C5

\* C5 (as claimed): the canonical name of the candidate of every completed
\* Submission is in the submitted set.
C5_CompletedNameStaysSubmitted ==
    \A t \in DOMAIN submissions_by_token :
        submissions_by_token[t].done => CanonOf(t) \in submitted_candidates

\* ---------------------------------------------------------------- C6

\* C6: a cancel event for a Submission that is not done leaves its canonical
\* name outside the submitted set; the name stays outside until a nomination
\* of it is accepted; and the next nameable nomination of that canonical name
\* is accepted: it creates a Submission of that candidate under a new token,
\* which becomes the active token of the nominating user.
C6_CancelFreesName ==
    [][/\ \A user \in Users, token \in DOMAIN submissions_by_token :
             ( /\ last'.handler = "cancel_submission"
               /\ ~submissions_by_token[token].done
               /\ cancel_submission(user, token) )
             => CanonOf(token) \notin submitted_candidates'
       /\ FreedNamesAbsent'
       /\ \A user \in Users, text \in PairTexts :
             ( /\ last'.handler = "partybot_submit"
               /\ Nameable(text)
               /\ Freed(canonicalize_name(CandidateName(text)))
               /\ partybot_submit(user, text) )
             => /\ last'.outcome = "accepted"
                /\ Len(submissions_by_token') = Len(submissions_by_token) + 1
                /\ submissions_by_token'[Len(submissions_by_token')].candidate =
                       CandidateName(text)
                /\ ~submissions_by_token'[Len(submissions_by_token')].done
                /\ current_token_by_user_id'[user] = Len(submissions_by_token')
                /\ canonicalize_name(CandidateName(text)) \in submitted_candidates']_vars

\* A nomination was just accepted for a canonical name that the cancel of an
\* earlier, still not done Submission had freed.
C6_Witness ==
    /\ last.outcome = "accepted"
    /\ \E t \in cancelled :
          /\ t < Len(submissions_by_token)
          /\ ~submissions_by_token[t].done
          /\ CanonOf(t) = CanonOf(Len(submissions_by_token))
          /\ \A t2 \in DOMAIN submissions_by_token :
                (t < t2 /\ t2 < Len(submissions_by_token)) => CanonOf(t2) # CanonOf(t)

\* ---------------------------------------------------------------- C7

\* C7: a nomination longer than MAX_COMMAND_LENGTH is rejected for its
\* length and one of exactly MAX_COMMAND_LENGTH characters is not; one
\* without a name part, of a known candidate or of a name in the submitted
\* set is rejected; and every rejected nomination leaves the submitted set,
\* the token map, the active tokens and the completed structure unchanged.
C7_RejectedNominationChangesNothing ==
    [][\A user \in Users, text \in Texts :
          ( /\ last'.handler = "partybot_submit"
            /\ partybot_submit(user, text) )
          => /\ Len(text) > MAX_COMMAND_LENGTH => last'.outcome = "too_long"
             /\ Len(text) <= MAX_COMMAND_LENGTH => last'.outcome # "too_long"
             /\ ( \/ NoNamePart(text)
                  \/ \E c \in KnownNames :
                        canonicalize_name(c) = canonicalize_name(CandidateName(text))
                  \/ canonicalize_name(CandidateName(text)) \in submitted_candidates )
                => last'.outcome \in Rejections
             /\ last'.outcome \in Rejections
                => UNCHANGED <<submitted_candidates, submissions_by_token,
                               current_token_by_user_id, done_submissions_by_user>>]_vars

\* A command of exactly MAX_COMMAND_LENGTH characters was accepted, and a
\* nomination was then rejected for its length.
C7_Witness ==
    /\ last.outcome = "too_long"
    /\ \E t \in DOMAIN submissions_by_token :
          Len(submissions_by_token[t].url) + 1 + Len(submissions_by_token[t].candidate)
              = MAX_COMMAND_LENGTH

\* ---------------------------------------------------------------- C8

\* C8: a nomination without a name part is rejected and creates no
\* Submission, whether or not its url has a scheme; a nameable nomination
\* of a name outside the submitted set whose url has no scheme is accepted,
\* with the warning about the url.
C8_EmptyNameRejected ==
    [][\A user \in Users, text \in Texts :
          ( /\ last'.handler = "partybot_submit"
            /\ partybot_submit(user, text) )
          => /\ NoNamePart(text)
                => /\ last'.outcome \in Rejections
                   /\ UNCHANGED <<submissions_by_token, submitted_candidates,
                                  current_token_by_user_id>>
             /\ ( /\ ~HasScheme(CandidateUrl(text))
                  /\ Nameable(text)
                  /\ canonicalize_name(CandidateName(text)) \notin submitted_candidates )
                => /\ last'.outcome = "accepted"
                   /\ last'.warned
                   /\ Len(submissions_by_token') = Len(submissions_by_token) + 1]_vars

\* A nomination whose url has no scheme was accepted, and one without a name
\* and without a scheme was then rejected for its empty name.
C8_Witness ==
    /\ last.outcome = "empty_name"
    /\ last.warned
    /\ \E t \in DOMAIN submissions_by_token : ~HasScheme(submissions_by_token[t].url)

\* ---------------------------------------------------------------- C9

\* C9: a message of a user whose active Submission has no position sets its
\* extra_info to the message text and leaves it not done, the completed
\* structure and the leads file unchanged; such a Submission becomes done
\* only by a pick-position event for its token; and that pick (of a user
\* under the limit) completes it with the position picked and the
\* extra_info kept, and dumps it to the leads file.
C9_InfoBeforePosition ==
    [][/\ \A user \in Users, text \in MessageTexts, file \in Files :
             ( /\ last'.handler = "extra_info_message"
               /\ user \in DOMAIN current_token_by_user_id
               /\ submissions_by_token[current_token_by_user_id[user]].position = None
               /\ ~submissions_by_token[current_token_by_user_id[user]].done
               /\ extra_info_message(user, text, file) )
             => /\ submissions_by_token'[current_token_by_user_id[user]].extra_info = text
                /\ ~submissions_by_token'[current_token_by_user_id[user]].done
                /\ UNCHANGED <<done_submissions_by_user, leads_file>>
       /\ \A t \in DOMAIN submissions_by_token :
             ( /\ submissions_by_token[t].extra_info # None
               /\ ~submissions_by_token[t].done
               /\ submissions_by_token'[t].done )
             => /\ last'.handler = "pick_position"
                /\ \E user \in Users, position \in open_positions :
                      pick_position(user, t, position)
       /\ \A user \in Users, t \in DOMAIN submissions_by_token,
             position \in open_positions :
             ( /\ last'.handler = "pick_position"
               /\ submissions_by_token[t].extra_info # None
               /\ ~submissions_by_token[t].done
               /\ CompletedCount(user, position) < CANDIDATE_LIMIT
               /\ pick_position(user, t, position) )
             => /\ submissions_by_token'[t].done
                /\ submissions_by_token'[t].position = position
                /\ submissions_by_token'[t].extra_info = submissions_by_token[t].extra_info
                /\ InCompleted(done_submissions_by_user', t)
                /\ submissions_by_token'[t] \in DOMAIN leads_file']_vars

\* A Submission that received its extra_info first was just completed by a
\* pick: it is done with both fields set.
C9_Witness ==
    /\ last.outcome = "finished"
    /\ \E t \in DOMAIN submissions_by_token :
          /\ submissions_by_token[t].done
          /\ submissions_by_token[t].extra_info = "info"
          /\ submissions_by_token[t].position \in open_positions
          /\ submissions_by_token[t] \in DOMAIN leads_file

\* ---------------------------------------------------------------- C10

\* C10 (as claimed): a pick-position or cancel event whose token the store
\* does not hold is answered with the error message, raises nothing and
\* leaves the token map, the submitted set and the active tokens alone.
C10_UnknownTokenReported ==
    [][/\ \A user \in Users, position \in open_positions :
             ( /\ pick_position(user, UnknownToken, position)
               /\ CompletedCount(user, position) < CANDIDATE_LIMIT )
             => /\ last'.outcome = "no_submission"
                /\ UNCHANGED <<submissions_by_token, submitted_candidates,
                               current_token_by_user_id>>
       /\ \A user \in Users :
             cancel_submission(user, UnknownToken)
             => /\ last'.outcome = "no_submission"
                /\ UNCHANGED <<submissions_by_token, submitted_candidates,
                               current_token_by_user_id>>]_vars

\* ---------------------------------------------------------------- C11

\* The user has no active token in the token map, or the Submission of the
\* user's active token is done.
NothingToRecord(user) ==
    IF user \in DOMAIN current_token_by_user_id
       /\ current_token_by_user_id[user] \in DOMAIN submissions_by_token
    THEN submissions_by_token[current_token_by_user_id[user]].done
    ELSE TRUE

\* C11: a message event of a user who has no active token, or whose active
\* token's Submission is done, leaves every Submission, the completed
\* structure, the leads file, the submitted set and the active tokens as
\* they were, whether or not the message shares a file.
C11_IgnoredMessageChangesNothing ==
    [][\A user \in Users, text \in MessageTexts, file \in Files :
          ( /\ last'.handler = "extra_info_message"
            /\ NothingToRecord(user)
            /\ extra_info_message(user, text, file) )
          => /\ last'.outcome \in {"unrelated", "already_done"}
             /\ UNCHANGED <<submissions_by_token, done_submissions_by_user,
                            leads_file, submitted_candidates,
                            current_token_by_user_id>>]_vars

\* A message was just ignored because the sender's active Submission is
\* done, while the other user has no active token.
C11_Witness ==
    /\ last.outcome = "already_done"
    /\ \E user \in DOMAIN current_token_by_user_id :
          /\ submissions_by_token[current_token_by_user_id[user]].done
          /\ submissions_by_token[current_token_by_user_id[user]].extra_info = None
    /\ \E user \in Users : user \notin DOMAIN current_token_by_user_id

\* ---------------------------------------------------------------- C12

\* C12 (as claimed): whenever no handler is in progress, leads.yaml holds
\* the dump of exactly the entries of the completed structure, and every
\* Submission that is done is in it with the fields it has now.
C12_LeadsFileHoldsCompleted ==
    AllIdle =>
        /\ leads_file = save(done_submissions_by_user, submissions_by_token)
        /\ \A t \in DOMAIN submissions_by_token :
              submissions_by_token[t].done =>
                  submissions_by_token[t] \in DOMAIN leads_file

\* ---------------------------------------------------------------- C13

\* C13 (as claimed): /partybot-report answers every user, one without a
\* completed submission included, and leaves every store as it was, the
\* submitter keys of done_submissions_by_user included.
C13_ReportReadOnly ==
    [][\A user \in Users :
          partybot_report(user)
          => /\ last'.outcome = "reported"
             /\ DOMAIN done_submissions_by_user' = DOMAIN done_submissions_by_user
             /\ UNCHANGED <<done_submissions_by_user, submitted_candidates,
                            submissions_by_token, current_token_by_user_id,
                            leads_file>>]_vars

\* ---------------------------------------------------------------- C14

\* C14: a cancel event for a token of the token map can only take a name
\* out of the submitted set: the token map (every Submission's flag and
\* fields), the active tokens, the completed structure and the leads file
\* are as before; and a later message of a user whose active token was
\* cancelled is still recorded on that Submission.
C14_CancelTouchesOnlySubmittedSet ==
    [][/\ \A user \in Users, token \in DOMAIN submissions_by_token :
             ( /\ last'.handler = "cancel_submission"
               /\ cancel_submission(user, token) )
             => /\ UNCHANGED <<submissions_by_token, current_token_by_user_id,
                               done_submissions_by_user, leads_file>>
                /\ submitted_candidates' \subseteq submitted_candidates
                /\ submitted_candidates \ submitted_candidates' \subseteq {CanonOf(token)}
       /\ \A user \in Users, text \in MessageTexts, file \in Files :
             ( /\ last'.handler = "extra_info_message"
               /\ user \in DOMAIN current_token_by_user_id
               /\ current_token_by_user_id[user] \in cancelled
               /\ ~submissions_by_token[current_token_by_user_id[user]].done
               /\ extra_info_message(user, text, file) )
             => /\ last'.outcome = "info_saved"
                /\ submissions_by_token'[current_token_by_user_id[user]].extra_info = text]_vars

\* The message handled last was recorded on a Submission that had been
\* cancelled before: it is the only one with extra_info, it is not done and
\* its name is out of the submitted set.
C14_Witness ==
    /\ last.outcome = "info_saved"
    /\ \E t \in cancelled :
          /\ submissions_by_token[t].extra_info = "info"
          /\ ~submissions_by_token[t].done
          /\ CanonOf(t) \notin submitted_candidates
          /\ \A t2 \in DOMAIN submissions_by_token :
                t2 # t => submissions_by_token[t2].extra_info = None

\* ---------------------------------------------------------------- C15

\* The token of the nomination of user that was accepted last, UnknownToken
\* when none was.
LatestTokenOf(user) ==
    LET own == {t \in DOMAIN submissions_by_token :
                   submissions_by_token[t].referer = user}
    IN  IF own = {} THEN UnknownToken
        ELSE CHOOSE t \in own : \A t2 \in own : t2 <= t

\* C15: the active token of a user is the token of that user's most
\* recently accepted nomination; a message of the user changes no Submission
\* but the one of that token; and a Submission that is not the active one
\* any more and is not done is completed by a pick-position event for its
\* own token (of a user under the limit), without the text of any message
\* sent after the later nomination.
C15_ActiveTokenIsLatest ==
    [][/\ \A user \in Users :
             IF LatestTokenOf(user)' = UnknownToken
             THEN user \notin DOMAIN current_token_by_user_id'
             ELSE /\ user \in DOMAIN current_token_by_user_id'
                  /\ current_token_by_user_id'[user] = LatestTokenOf(user)'
       /\ \A user \in Users, text \in MessageTexts, file \in Files :
             ( /\ last'.handler = "extra_info_message"
               /\ extra_info_message(user, text, file) )
             => \A t \in DOMAIN submissions_by_token :
                    t # LatestTokenOf(user) =>
                        submissions_by_token'[t] = submissions_by_token[t]
       /\ \A user \in Users, t \in DOMAIN submissions_by_token :
             ( /\ last'.handler = "pick_position"
               /\ t # LatestTokenOf(submissions_by_token[t].referer)
               /\ ~submissions_by_token[t].done
               /\ CompletedCount(user, "p1") < CANDIDATE_LIMIT
               /\ pick_position(user, t, "p1") )
             => /\ submissions_by_token'[t].done
                /\ submissions_by_token'[t].extra_info = submissions_by_token[t].extra_info
                /\ InCompleted(done_submissions_by_user', t)]_vars

\* u1 nominated twice, sent a message after the second nomination, and the
\* first Submission was then completed by a pick: the text is on the second
\* Submission only.
C15_Witness ==
    /\ last.outcome = "finished"
    /\ Len(submissions_by_token) = 2
    /\ submissions_by_token[1].referer = "u1"
    /\ submissions_by_token[2].referer = "u1"
    /\ submissions_by_token[1].done
    /\ submissions_by_token[1].extra_info = None
    /\ submissions_by_token[2].extra_info = "info"
    /\ ~submissions_by_token[2].done
    /\ current_token_by_user_id["u1"] = 2

\* ---------------------------------------------------------------- C16

\* C16 (as claimed): of the nominations that run concurrently, statement by
\* statement, no two with one canonical name are both accepted: no two
\* Submissions of the token map have the same canonical name.
C16_OneAcceptedPerName ==
    \A t1, t2 \in DOMAIN submissions_by_token :
        t1 # t2 => CanonOf(t1) # CanonOf(t2)

\* ---------------------------------------------------------------- C17

\* C17 (as claimed): with pick-position handlers interleaved statement by
\* statement, no submitter holds more than CANDIDATE_LIMIT completed entries
\* under a position.
C17_LimitNeverExceeded ==
    \A user \in Users, position \in open_positions :
        CompletedCount(user, position) <= CANDIDATE_LIMIT

\* ---------------------------------------------------------------- C18

\* C18 (as claimed): every Submission that is accepted, not done and never
\* itself cancelled has its canonical name in the submitted set, and no two
\* such Submissions share a canonical name.
C18_PendingNameSubmitted ==
    /\ \A t \in DOMAIN submissions_by_token :
          Pending(t) => CanonOf(t) \in submitted_candidates
    /\ \A t1, t2 \in DOMAIN submissions_by_token :
          (Pending(t1) /\ Pending(t2) /\ t1 # t2) => CanonOf(t1) # CanonOf(t2)

\* ---------------------------------------------------------------- C19

\* C19 (as claimed): every entry of the completed structure under submitter
\* s, position p and candidate c is a Submission whose referer is s, whose
\* position is p and whose candidate is c.
C19_CompletedKeysMatchFields ==
    \A x \in DonePaths(done_submissions_by_user) :
        LET submission ==
                submissions_by_token[done_submissions_by_user[x[1]][x[2]][x[3]]]
        IN  /\ submission.referer = x[1]
            /\ submission.position = x[2]
            /\ submission.candidate = x[3]

\* ---------------------------------------------------------------- C20

\* A worker runs pick_position for token t and is between the assignment of
\* line 281 and the assignment of line 213.
InPickWindow(t) ==
    \E w \in DOMAIN threads :
        /\ threads[w].handler = "pick_position"
        /\ threads[w].token = t
        /\ threads[w].pc \in {"l284", "l213"}

\* A worker runs finish_submission on behalf of the message handler.
MessageCompletes ==
    \E w \in DOMAIN threads :
        /\ threads[w].handler = "extra_info_message"
        /\ threads[w].pc \in {"l213", "l214", "l216", "l226", "l230"}

\* C20: a Submission has a position and is not done only while a worker is
\* in pick_position between lines 281 and 213 for its token.  So with a pool
\* of one worker (handlers run to completion one at a time) every Submission
\* with a position is done whenever no handler is in progress, whichever
\* outbound calls failed, and the message handler never enters
\* finish_submission.
C20_PositionWithoutDoneOnlyInPick ==
    /\ \A t \in DOMAIN submissions_by_token :
          ( /\ submissions_by_token[t].position # None
            /\ ~submissions_by_token[t].done )
          => InPickWindow(t)
    /\ DOMAIN threads = {1} =>
          /\ ~MessageCompletes
          /\ AllIdle =>
                \A t \in DOMAIN submissions_by_token :
                    submissions_by_token[t].position # None
                        => submissions_by_token[t].done

\* The message handler is at line 363 for a Submission that has a position
\* and is not done yet, while pick_position is in its window for the token.
C20_Witness ==
    \E w \in DOMAIN threads :
        /\ threads[w].handler = "extra_info_message"
        /\ threads[w].pc = "l363"
        /\ submissions_by_token[threads[w].token].position # None
        /\ ~submissions_by_token[threads[w].token].done
        /\ InPickWindow(threads[w].token)

====
